---- MODULE Spec2Model ----
(***************************************************************************)
(* Project HELIX v2.0: the database-mediated pipeline engine.              *)
(*                                                                         *)
(* The model covers the three tables (jobs, tasks, artifacts), the agent   *)
(* worker's polling loop and BaseAgent.run_task (src/src/sdk/agent_sdk.py),*)
(* the three polling loops of HelixOrchestrator                            *)
(* (src/src/orchestrator/main.py), the workflow engine queries             *)
(* (src/src/orchestrator/workflow_engine.py), classify_error               *)
(* (src/src/exceptions.py) and the job API's create/cancel                 *)
(* (src/src/api/jobs.py).  One step of the model is one database round     *)
(* trip (or one stage-function invocation) of one coroutine: these are     *)
(* the suspension points of the asyncio code.                              *)
(***************************************************************************)
EXTENDS Integers, Sequences, FiniteSets, TLC

\* ---------------------------------------------------------------- bounds
MaxJobs == 1
MaxTasks == 2
MaxRuns == 2
MaxCancels == 1
\* the deployments explored: worker processes racing over a short horizon,
\* one worker process over the whole life of its tasks, one worker process
\* beside an API client that cancels jobs, and one worker process beside an
\* orchestrator started on a workflows.json that is inconsistent or
\* unreadable; the budget is the number of stage-function invocations that
\* return (a stage function may also hang for ever), cancels the number of
\* cancel requests the client sends, workflow the workflows.json on disk
RaceWorkers == 2
RaceBudget == 3
LifeBudget == 7
ClientBudget == 2
Deployments ==
    {[workers |-> RaceWorkers, budget |-> RaceBudget, cancels |-> 0, stage |-> "any",
      workflow |-> "valid"],
     [workers |-> 1, budget |-> LifeBudget, cancels |-> 0, stage |-> "any",
      workflow |-> "valid"],
     [workers |-> 1, budget |-> ClientBudget, cancels |-> MaxCancels, stage |-> "any",
      workflow |-> "valid"],
     [workers |-> 1, budget |-> ClientBudget, cancels |-> 0, stage |-> "any",
      workflow |-> "missing_input"],
     [workers |-> 1, budget |-> ClientBudget, cancels |-> 0, stage |-> "any",
      workflow |-> "unreadable"]}

\* ------------------------------------------------------ program constants
max_retry_count == 3
max_retry_attempts == 3
retry_delay_seconds == 5

RunIds == 1..MaxRuns

\* --------------------------------------------------------------- state
VARIABLES
    deployment,  \* the worker processes started and the stage functions' behaviour
    jobs,        \* the jobs table, indexed by id
    tasks,       \* the tasks table, indexed by id
    artifacts,   \* the artifacts table, in insertion order
    workers,     \* AgentWorker._poll_tasks, one per worker process
    runs,        \* in-flight BaseAgent.run_task coroutines
    newJobs,     \* HelixOrchestrator._poll_new_jobs
    completed,   \* HelixOrchestrator._poll_completed_tasks
    failed,      \* HelixOrchestrator._monitor_failed_tasks
    cancels,     \* in-flight cancel_job requests
    returned,    \* what the run_task call that returned last returned
    invocations, \* history: stage-function invocations per task
    requeues,    \* history: FAILED -> PENDING re-queues per task
    nonRetryable \* history: tasks a non-retryable stage error has failed


\* --------------------------------------------------- workflow definition
execution_order == <<"AGENT_1", "AGENT_2">>
EscalationAgent == "AGENT_5"

SeqToSet(s) == {s[i] : i \in 1..Len(s)}

IndexOf(s, x) == CHOOSE i \in 1..Len(s) : s[i] = x

get_first_agent == execution_order[1]

get_next_agents(agent) ==
    IF agent \notin SeqToSet(execution_order) THEN <<>>
    ELSE IF IndexOf(execution_order, agent) >= Len(execution_order) THEN <<>>
    ELSE <<execution_order[IndexOf(execution_order, agent) + 1]>>

get_artifact_name_for_agent(agent) ==
    CASE agent = "AGENT_1" -> "creative_brief"
      [] agent = "AGENT_2" -> "visual_explorations"
      [] agent = "AGENT_3" -> "presentation_blueprint"
      [] agent = "AGENT_4" -> "audit_report"
      [] agent = "AGENT_5" -> "evolution_proposal"
      [] OTHER -> "artifact_other"

\* variant: the workflow definition declares a name the runner does not use
get_agent_output_artifact_renamed(agent) == "artifact_other"

get_agent_output_artifact(agent) ==
    get_artifact_name_for_agent(agent)

get_agent_input_artifacts(agent) ==
    CASE agent = "AGENT_1" -> <<>>
      [] agent = "AGENT_2" -> IF deployment.workflow = "missing_input"
                              THEN <<"presentation_blueprint">>
                              ELSE <<"creative_brief">>
      [] agent = "AGENT_5" -> <<"system_failure_case">>
      [] OTHER -> <<>>

\* load_workflows: open and json.load raise on an unreadable file; the
\* parsed definition is stored as it is
load_workflows ==
    IF deployment.workflow = "unreadable" THEN "raised" ELSE "loaded"

\* validate_workflow: every required input artifact of a stage is the
\* output artifact of an earlier stage of the execution order
validate_workflow ==
    \A k \in 1..Len(execution_order) :
        \A i \in 1..Len(get_agent_input_artifacts(execution_order[k])) :
            \E m \in 1..(k - 1) :
                get_agent_output_artifact(execution_order[m])
                    = get_agent_input_artifacts(execution_order[k])[i]

\* HelixOrchestrator.start: the polling loops run once load_workflows has
\* returned
running == load_workflows = "loaded"

\* ------------------------------------------------------ error taxonomy
\* An exception is its class and which keyword families its text contains.
ErrorClasses == {"RetryableError", "NonRetryableError", "Untyped"}
Errors == [cls : ErrorClasses, retryKw : BOOLEAN, nonRetryKw : BOOLEAN]

\* variant: the text is matched before the type is looked at
classify_error_text_first(e) ==
    IF e.retryKw THEN TRUE
    ELSE IF e.nonRetryKw THEN FALSE
    ELSE e.cls # "NonRetryableError"

classify_error(e) ==
    IF e.cls = "RetryableError" THEN TRUE
    ELSE IF e.cls = "NonRetryableError" THEN FALSE
    ELSE IF e.retryKw THEN TRUE
    ELSE IF e.nonRetryKw THEN FALSE
    ELSE TRUE

\* ValueError(f"Output schema validation failed: {ve}"): the wrapper's own
\* text holds "schema" and "validation"; the rest is the validator's text.
SchemaValidationFailure(veText) ==
    [cls |-> "Untyped", retryKw |-> veText.retryKw, nonRetryKw |-> TRUE]

\* asyncpg's UniqueViolationError text: no keyword of either family.
UniqueViolation == [cls |-> "Untyped", retryKw |-> FALSE, nonRetryKw |-> FALSE]

db == <<jobs, tasks, artifacts>>
orch == <<newJobs, completed, failed>>
hist == <<invocations, requeues, nonRetryable>>
vars == <<deployment, jobs, tasks, artifacts, workers, runs, newJobs, completed, failed,
          cancels, returned, invocations, requeues, nonRetryable>>

NoErr == [src |-> "none", retryable |-> FALSE]

IdleRun ==
    [pc |-> "idle", task |-> 0, attempt |-> 0, err |-> NoErr, tx |-> 0,
     invoked |-> 0, allRetry |-> FALSE, incremented |-> 0, slept |-> 0]

NewJobsIdle == [pc |-> "poll", pending |-> {}, job |-> 0]

CompletedPollerIdle ==
    [pc |-> "poll", pending |-> {}, task |-> 0, snap |-> [output |-> FALSE],
     input |-> <<>>]

FailedMonitorIdle == [pc |-> "poll", pending |-> {}, task |-> 0]

InitTables ==
    /\ jobs = <<>>
    /\ tasks = <<>>
    /\ artifacts = <<>>
    /\ workers = [w \in 1..deployment.workers |-> [pc |-> "poll", pending |-> <<>>]]
    /\ runs = [r \in RunIds |-> IdleRun]
    /\ newJobs = NewJobsIdle
    /\ completed = CompletedPollerIdle
    /\ failed = FailedMonitorIdle
    /\ cancels = [pc |-> "idle", job |-> 0, count |-> 0]
    /\ returned = "none"
    /\ invocations = <<>>
    /\ requeues = <<>>
    /\ nonRetryable = {}

Init == deployment \in Deployments /\ InitTables

Workers == DOMAIN workers
TaskIds == 1..Len(tasks)
JobIds == 1..Len(jobs)

RECURSIVE SumSeq(_)
SumSeq(s) == IF s = <<>> THEN 0 ELSE Head(s) + SumSeq(Tail(s))

\* A transaction that has written tasks row t holds its row lock until it
\* commits or rolls back; other writers of the row wait.
RowLocked(t) ==
    \E r \in RunIds : runs[r].pc = "tx" /\ runs[r].task = t /\ runs[r].tx >= 1

HasArtifact(t, name) ==
    \E i \in 1..Len(artifacts) : artifacts[i].task_id = t /\ artifacts[i].name = name

\* INSERT INTO tasks (job_id, agent_id, status, input_data)
create_task(ts, job, agent, input) ==
    Append(ts, [job_id |-> job, agent_id |-> agent, status |-> "PENDING",
                input |-> input, output |-> FALSE, error_log |-> <<>>,
                retry_count |-> 0, completed_at |-> FALSE])

\* ------------------------------------------------------------ job API
create_job ==
    /\ Len(jobs) < MaxJobs
    /\ jobs' = Append(jobs, [status |-> "PENDING"])
    /\ UNCHANGED <<deployment, tasks, artifacts, workers, runs, orch, cancels, returned, hist>>

cancel_job_check(j) ==
    /\ cancels.pc = "idle"
    /\ cancels.count < deployment.cancels
    /\ cancels' = IF jobs[j].status \in {"COMPLETED", "CANCELLED"}
                  THEN [cancels EXCEPT !.count = @ + 1]
                  ELSE [cancels EXCEPT !.pc = "update", !.job = j]
    /\ UNCHANGED <<deployment, db, workers, runs, orch, returned, hist>>

cancel_job_update ==
    /\ cancels.pc = "update"
    /\ jobs' = [jobs EXCEPT ![cancels.job].status = "CANCELLED"]
    /\ cancels' = [pc |-> "idle", job |-> 0, count |-> cancels.count + 1]
    /\ UNCHANGED <<deployment, tasks, artifacts, workers, runs, orch, returned, hist>>

\* ------------------------------------------------------- AgentWorker
PendingTaskIds == {t \in TaskIds : tasks[t].status = "PENDING"}

RECURSIVE SortedSeq(_)
SortedSeq(S) ==
    IF S = {} THEN <<>>
    ELSE LET m == CHOOSE x \in S : \A y \in S : x <= y
         IN <<m>> \o SortedSeq(S \ {m})

FreeRuns == {r \in RunIds : runs[r].pc = "idle"}

\* SELECT id, agent_id FROM tasks WHERE status = PENDING ORDER BY created_at
poll_tasks_select(w) ==
    /\ workers[w].pc = "poll"
    /\ PendingTaskIds # {}
    /\ workers' = [workers EXCEPT ![w] = [pc |-> "assign",
                                          pending |-> SortedSeq(PendingTaskIds)]]
    /\ UNCHANGED <<deployment, db, runs, orch, cancels, returned, hist>>

\* UPDATE tasks SET status = ASSIGNED WHERE id = $2, then
\* asyncio.create_task(self._process_task(task_id, agent_id))
poll_tasks_assign(w) ==
    /\ workers[w].pc = "assign"
    /\ FreeRuns # {}
    /\ LET t == Head(workers[w].pending)
           rest == Tail(workers[w].pending)
           r == CHOOSE x \in FreeRuns : \A y \in FreeRuns : x <= y
       IN /\ ~RowLocked(t)
          /\ tasks' = [tasks EXCEPT ![t].status = "ASSIGNED"]
          /\ runs' = [runs EXCEPT ![r] = [IdleRun EXCEPT !.pc = "start", !.task = t]]
          /\ workers' = [workers EXCEPT ![w] =
                            [pc |-> IF rest = <<>> THEN "poll" ELSE "assign",
                             pending |-> rest]]
    /\ UNCHANGED <<deployment, jobs, artifacts, orch, cancels, returned, hist>>

\* ------------------------------------------------- BaseAgent.run_task
\* variant: run_task without its idempotency guard
run_task_start_unguarded(r) ==
    /\ runs[r].pc = "start"
    /\ runs' = [runs EXCEPT ![r].pc = "mark", ![r].attempt = 0,
                            ![r].allRetry = TRUE]
    /\ UNCHANGED <<deployment, db, workers, orch, cancels, returned, hist>>

\* get_task and the idempotency guard
run_task_start(r) ==
    /\ runs[r].pc = "start"
    /\ IF tasks[runs[r].task].status = "COMPLETED"
       THEN /\ runs' = [runs EXCEPT ![r] = IdleRun]
            /\ returned' = "true"
       ELSE /\ runs' = [runs EXCEPT ![r].pc = "mark", ![r].attempt = 0,
                                    ![r].allRetry = TRUE]
            /\ UNCHANGED returned
    /\ UNCHANGED <<deployment, db, workers, orch, cancels, hist>>

\* update_task_status(task_id, IN_PROGRESS)
run_task_mark_in_progress(r) ==
    /\ runs[r].pc = "mark"
    /\ ~RowLocked(runs[r].task)
    /\ tasks' = [tasks EXCEPT ![runs[r].task].status = "IN_PROGRESS"]
    /\ runs' = [runs EXCEPT ![r].pc = "invoke"]
    /\ UNCHANGED <<deployment, jobs, artifacts, workers, orch, cancels, returned, hist>>

\* variant: the retry test is off by one
WillRetry_offbyone(is_retryable, attempt) ==
    is_retryable /\ attempt < max_retry_count

\* whether the retry loop goes round again after an exception
WillRetry(is_retryable, attempt) ==
    is_retryable /\ attempt < max_retry_count - 1

\* the except branch of the retry loop, up to its first database call
HandleError(run, src, e) ==
    LET is_retryable == classify_error(e)
    IN [run EXCEPT
          !.err = [src |-> src, retryable |-> is_retryable],
          !.tx = 0,
          !.allRetry = run.allRetry /\ src = "stage" /\ is_retryable,
          !.pc = IF WillRetry(is_retryable, run.attempt) THEN "incr" ELSE "fail"]

\* the exceptions the stage functions of this deployment raise
StageErrors ==
    CASE deployment.stage = "any" -> Errors
      [] deployment.stage = "raises_retryable" -> {e \in Errors : classify_error(e)}
      [] deployment.stage = "raises" -> {deployment.raises}
      [] OTHER -> {}

\* await self.process_task(task_input), then the schema validation that
\* opens save_output_and_complete_task
run_task_invoke(r) ==
    /\ runs[r].pc = "invoke"
    /\ SumSeq(invocations) < deployment.budget
    /\ invocations' = [invocations EXCEPT ![runs[r].task] = @ + 1]
    /\ LET run == [runs[r] EXCEPT !.invoked = @ + 1]
       IN \/ \E e \in StageErrors :
                runs' = [runs EXCEPT ![r] = HandleError(run, "stage", e)]
          \/ /\ deployment.stage = "any"
             /\ \E ve \in Errors :
                   runs' = [runs EXCEPT ![r] =
                              HandleError(run, "schema", SchemaValidationFailure(ve))]
          \/ /\ deployment.stage \in {"any", "succeeds"}
             /\ runs' = [runs EXCEPT ![r] =
                           [run EXCEPT !.pc = "tx", !.tx = 0, !.allRetry = FALSE]]
    /\ UNCHANGED <<deployment, db, workers, orch, cancels, returned, requeues,
                   nonRetryable>>

\* What the three writes of the transaction make visible to other
\* connections once n of them have executed: nothing before the commit
\* that follows the third.
\* variant: every statement commits on its own (no transaction)
TxVisibleTasks_autocommit(ts, t, n) ==
    IF n = 1 THEN [ts EXCEPT ![t].output = TRUE]
    ELSE IF n = 3
         THEN [ts EXCEPT ![t].status = "COMPLETED", ![t].completed_at = TRUE]
         ELSE ts

TxVisibleTasks(ts, t, n) ==
    IF n = 3
    THEN [ts EXCEPT ![t].output = TRUE, ![t].status = "COMPLETED",
                    ![t].completed_at = TRUE]
    ELSE ts

TxVisibleArtifacts(as, t, name, n) ==
    IF n = 3 THEN Append(as, [task_id |-> t, name |-> name]) ELSE as

\* one statement of the transaction in save_output_and_complete_task
save_output_and_complete_task(r) ==
    /\ runs[r].pc = "tx"
    /\ LET t == runs[r].task
           name == get_artifact_name_for_agent(tasks[t].agent_id)
           n == runs[r].tx + 1
       IN /\ \A q \in RunIds \ {r} :
                ~(runs[q].pc = "tx" /\ runs[q].task = t /\ runs[q].tx >= 1)
          /\ IF n = 2 /\ HasArtifact(t, name)
             THEN /\ runs' = [runs EXCEPT ![r] = HandleError(@, "unique", UniqueViolation)]
                  /\ UNCHANGED <<tasks, artifacts, returned>>
             ELSE /\ tasks' = TxVisibleTasks(tasks, t, n)
                  /\ artifacts' = TxVisibleArtifacts(artifacts, t, name, n)
                  /\ runs' = [runs EXCEPT ![r] =
                                IF n = 3 THEN IdleRun ELSE [@ EXCEPT !.tx = n]]
                  /\ returned' = IF n = 3 THEN "true" ELSE returned
    /\ UNCHANGED <<deployment, jobs, workers, orch, cancels, hist>>

\* a statement of the transaction raises: the transaction rolls back
save_output_raises(r) ==
    /\ runs[r].pc = "tx"
    /\ \E e \in {x \in Errors : x.cls = "Untyped"} :
          runs' = [runs EXCEPT ![r] = HandleError(@, "db", e)]
    /\ UNCHANGED <<deployment, db, workers, orch, cancels, returned, hist>>

\* the worker process dies inside the transaction: the server rolls back
run_task_crash(r) ==
    /\ runs[r].pc = "tx"
    /\ runs' = [runs EXCEPT ![r] = IdleRun]
    /\ UNCHANGED <<deployment, db, workers, orch, cancels, returned, hist>>

\* variant: the UPDATE leaves retry_count alone
retry_count_plus_one_skipped(ts, t) ==
    ts

\* UPDATE tasks SET retry_count = retry_count + 1 WHERE id = $1
retry_count_plus_one(ts, t) ==
    [ts EXCEPT ![t].retry_count = @ + 1]

\* _increment_retry_count; the run's `incremented` is what its own UPDATEs
\* have added to the row
increment_retry_count(r) ==
    /\ runs[r].pc = "incr"
    /\ ~RowLocked(runs[r].task)
    /\ tasks' = retry_count_plus_one(tasks, runs[r].task)
    /\ runs' = [runs EXCEPT
                   ![r].pc = "retrying",
                   ![r].incremented = @ + tasks'[runs[r].task].retry_count
                                        - tasks[runs[r].task].retry_count]
    /\ UNCHANGED <<deployment, jobs, artifacts, workers, orch, cancels, returned, hist>>

\* update_task_status(task_id, RETRYING, str(e))
run_task_set_retrying(r) ==
    /\ runs[r].pc = "retrying"
    /\ ~RowLocked(runs[r].task)
    /\ tasks' = [tasks EXCEPT ![runs[r].task].status = "RETRYING",
                              ![runs[r].task].error_log = <<"error">>]
    /\ runs' = [runs EXCEPT ![r].pc = "sleep", ![r].err = NoErr]
    /\ UNCHANGED <<deployment, jobs, artifacts, workers, orch, cancels, returned, hist>>

\* variant: the same delay before every retry
backoff_delay_fixed(attempt) ==
    retry_delay_seconds

\* retry_delay * (2 ** attempt)
backoff_delay(attempt) ==
    retry_delay_seconds * 2 ^ attempt

\* asyncio.sleep(retry_delay * 2 ** attempt); task = get_task(task_id);
\* the next iteration marks IN_PROGRESS only if the row reads RETRYING;
\* the run's `slept` is the length of its latest sleep
run_task_refresh(r) ==
    /\ runs[r].pc = "sleep"
    /\ IF runs[r].attempt + 1 < max_retry_count
       THEN /\ runs' = [runs EXCEPT
                          ![r].attempt = @ + 1,
                          ![r].slept = backoff_delay(runs[r].attempt),
                          ![r].pc = IF tasks[runs[r].task].status = "RETRYING"
                                    THEN "mark" ELSE "invoke"]
            /\ UNCHANGED returned
       ELSE \* range(max_retries) is exhausted: run_task falls off its end
            /\ runs' = [runs EXCEPT ![r] = IdleRun]
            /\ returned' = "none"
    /\ UNCHANGED <<deployment, db, workers, orch, cancels, hist>>

\* update_task_status(task_id, FAILED, str(e)); return False
run_task_set_failed(r) ==
    /\ runs[r].pc = "fail"
    /\ ~RowLocked(runs[r].task)
    /\ tasks' = [tasks EXCEPT ![runs[r].task].status = "FAILED",
                              ![runs[r].task].error_log = <<"error">>]
    /\ runs' = [runs EXCEPT ![r] = IdleRun]
    /\ returned' = "false"
    /\ nonRetryable' = IF runs[r].err.src = "stage" /\ ~runs[r].err.retryable
                       THEN nonRetryable \cup {runs[r].task} ELSE nonRetryable
    /\ UNCHANGED <<deployment, jobs, artifacts, workers, orch, cancels,
                   invocations, requeues>>

\* ------------------------------------- HelixOrchestrator._poll_new_jobs
\* variant: the query also returns the jobs already in progress
PendingJobIds_unfiltered ==
    {j \in JobIds : jobs[j].status \in {"PENDING", "IN_PROGRESS"}}

PendingJobIds ==
    {j \in JobIds : jobs[j].status = "PENDING"}

\* SELECT * FROM jobs WHERE status = PENDING ORDER BY created_at ASC
poll_new_jobs ==
    /\ running
    /\ newJobs.pc = "poll"
    /\ PendingJobIds # {}
    /\ newJobs' = [pc |-> "update", pending |-> Tail(SortedSeq(PendingJobIds)),
                   job |-> Head(SortedSeq(PendingJobIds))]
    /\ UNCHANGED <<deployment, db, workers, runs, completed, failed, cancels, returned, hist>>

process_new_job ==
    /\ IF newJobs.pc = "update"
       THEN \* mark job as in progress
            /\ jobs' = [jobs EXCEPT ![newJobs.job].status = "IN_PROGRESS"]
            /\ newJobs' = [newJobs EXCEPT !.pc = "create"]
            /\ UNCHANGED <<tasks, hist>>
       ELSE \* create first task
            /\ newJobs.pc = "create"
            /\ Len(tasks) < MaxTasks
            /\ tasks' = create_task(tasks, newJobs.job, get_first_agent,
                                    [artifacts |-> <<>>, params |-> "initial_request"])
            /\ invocations' = Append(invocations, 0)
            /\ requeues' = Append(requeues, 0)
            /\ UNCHANGED nonRetryable
            /\ newJobs' = IF newJobs.pending = <<>> THEN NewJobsIdle
                          ELSE [pc |-> "update", pending |-> Tail(newJobs.pending),
                                job |-> Head(newJobs.pending)]
            /\ UNCHANGED jobs
    /\ UNCHANGED <<deployment, artifacts, workers, runs, completed, failed, cancels, returned>>

\* ------------------------------ HelixOrchestrator._poll_completed_tasks
Orchestrated(log) == "[ORCHESTRATED]" \in SeqToSet(log)

\* SELECT t.* FROM tasks t JOIN jobs j ... WHERE t.status = COMPLETED AND
\* j.status = IN_PROGRESS AND t.error_log NOT LIKE '%[ORCHESTRATED]%'
\* variant: the query without its status conditions
CompletedRows_any_status ==
    {[id |-> t, output |-> tasks[t].output] :
        t \in {x \in TaskIds : ~Orchestrated(tasks[x].error_log)}}

CompletedRows ==
    {[id |-> t, output |-> tasks[t].output] :
        t \in {x \in TaskIds : /\ tasks[x].status = "COMPLETED"
                               /\ jobs[tasks[x].job_id].status = "IN_PROGRESS"
                               /\ ~Orchestrated(tasks[x].error_log)}}

poll_completed_tasks ==
    /\ running
    /\ completed.pc = "poll"
    /\ CompletedRows # {}
    /\ completed' = [completed EXCEPT !.pc = "next", !.pending = CompletedRows]
    /\ UNCHANGED <<deployment, db, workers, runs, newJobs, failed, cancels, returned, hist>>

\* variant: the INSERT without its ON CONFLICT clause and without the
\* unique constraint
create_artifact_unconditional(as, t, snap) ==
    IF snap.output
    THEN Append(as, [task_id |-> t,
                     name |-> get_agent_output_artifact(tasks[t].agent_id)])
    ELSE as

\* INSERT INTO artifacts ... ON CONFLICT (task_id, name) DO NOTHING
create_artifact(as, t, snap) ==
    LET name == get_agent_output_artifact(tasks[t].agent_id)
    IN IF snap.output /\ ~HasArtifact(t, name)
       THEN Append(as, [task_id |-> t, name |-> name])
       ELSE as

\* the task that owns the most recently created artifact of that name
\* among the job's tasks, if any
LatestFor(job, name) ==
    LET I == {i \in 1..Len(artifacts) :
                 artifacts[i].name = name /\ tasks[artifacts[i].task_id].job_id = job}
    IN IF I = {} THEN <<>>
       ELSE <<[name |-> name,
               source_task_id |-> artifacts[CHOOSE i \in I : \A k \in I : k <= i].task_id]>>

RECURSIVE ResolveRefs(_, _)
ResolveRefs(job, names) ==
    IF names = <<>> THEN <<>>
    ELSE LatestFor(job, Head(names)) \o ResolveRefs(job, Tail(names))

prepare_task_input(job, agent) ==
    [artifacts |-> ResolveRefs(job, get_agent_input_artifacts(agent)),
     params |-> "empty"]

\* UPDATE tasks SET error_log = COALESCE(error_log, '') || '[ORCHESTRATED]'
\* WHERE id = $1 AND error_log NOT LIKE '%[ORCHESTRATED]%'
\* variant: the marker update is left out
mark_orchestrated_skipped(ts, t) ==
    ts

mark_orchestrated(ts, t) ==
    IF Orchestrated(ts[t].error_log) THEN ts
    ELSE [ts EXCEPT ![t].error_log = Append(@, "[ORCHESTRATED]")]

process_completed_task ==
    /\ LET t == completed.task
       IN IF completed.pc = "next"
          THEN \* the next row of the result set; _create_artifact
               \E row \in completed.pending :
                 /\ artifacts' = create_artifact(artifacts, row.id, row)
                 /\ completed' = [completed EXCEPT
                       !.pending = @ \ {row}, !.task = row.id,
                       !.snap = [output |-> row.output],
                       !.pc = IF get_next_agents(tasks[row.id].agent_id) = <<>>
                              THEN "complete" ELSE "input"]
                 /\ UNCHANGED <<jobs, tasks, hist>>
          ELSE IF completed.pc = "complete"
          THEN \* _complete_job
               /\ jobs' = [jobs EXCEPT ![tasks[t].job_id].status = "COMPLETED"]
               /\ completed' = [completed EXCEPT !.pc = "mark"]
               /\ UNCHANGED <<tasks, artifacts, hist>>
          ELSE IF completed.pc = "input"
          THEN \* _prepare_task_input
               /\ completed' = [completed EXCEPT
                     !.input = prepare_task_input(tasks[t].job_id,
                                  Head(get_next_agents(tasks[t].agent_id))),
                     !.pc = "create"]
               /\ UNCHANGED <<jobs, tasks, artifacts, hist>>
          ELSE IF completed.pc = "create"
          THEN \* _create_task
               /\ Len(tasks) < MaxTasks
               /\ tasks' = create_task(tasks, tasks[t].job_id,
                                       Head(get_next_agents(tasks[t].agent_id)),
                                       completed.input)
               /\ invocations' = Append(invocations, 0)
               /\ requeues' = Append(requeues, 0)
               /\ UNCHANGED nonRetryable
               /\ completed' = [completed EXCEPT !.pc = "mark", !.input = <<>>]
               /\ UNCHANGED <<jobs, artifacts>>
          ELSE \* mark the task as processed by the orchestrator
               /\ completed.pc = "mark"
               /\ ~RowLocked(t)
               /\ tasks' = mark_orchestrated(tasks, t)
               /\ completed' = IF completed.pending = {} THEN CompletedPollerIdle
                               ELSE [completed EXCEPT !.pc = "next", !.task = 0,
                                        !.snap = [output |-> FALSE]]
               /\ UNCHANGED <<jobs, artifacts, hist>>
    /\ UNCHANGED <<deployment, workers, runs, newJobs, failed, cancels, returned>>

\* ------------------------------ HelixOrchestrator._monitor_failed_tasks
\* SELECT * FROM tasks WHERE status = FAILED AND retry_count < $2
FailedRows ==
    {[id |-> t, retry_count |-> tasks[t].retry_count] :
        t \in {x \in TaskIds : /\ tasks[x].status = "FAILED"
                               /\ tasks[x].retry_count < max_retry_attempts}}

monitor_failed_tasks ==
    /\ running
    /\ failed.pc = "poll"
    /\ FailedRows # {}
    /\ failed' = [pc |-> "next", pending |-> FailedRows, task |-> 0]
    /\ UNCHANGED <<deployment, db, workers, runs, newJobs, completed, cancels, returned, hist>>

FailedAfterRow(f) ==
    IF f.pending = {} THEN FailedMonitorIdle
    ELSE [f EXCEPT !.pc = "next", !.task = 0]

\* the INSERT of _create_system_failure_case; a failing INSERT is logged
\* and swallowed
create_system_failure_case(as, t) ==
    IF HasArtifact(t, "system_failure_case") THEN as
    ELSE Append(as, [task_id |-> t, name |-> "system_failure_case"])

\* variant: the re-queue leaves retry_count alone
requeue_task_noincr(ts, t) ==
    [ts EXCEPT ![t].status = "PENDING"]

\* UPDATE tasks SET status = PENDING, retry_count = retry_count + 1
requeue_task(ts, t) ==
    [ts EXCEPT ![t].status = "PENDING", ![t].retry_count = @ + 1]

\* whether _process_failed_task retries the task it read
ShouldRetry(row) == row.retry_count < max_retry_attempts

process_failed_task ==
    /\ IF failed.pc = "next"
       THEN \E row \in failed.pending :
              IF ShouldRetry(row)
              THEN \* retry the task
                   /\ ~RowLocked(row.id)
                   /\ tasks' = requeue_task(tasks, row.id)
                   /\ requeues' = [requeues EXCEPT ![row.id] = @ + 1]
                   /\ UNCHANGED nonRetryable
                   /\ failed' = FailedAfterRow([failed EXCEPT !.pending = @ \ {row}])
                   /\ UNCHANGED <<jobs, artifacts, invocations>>
              ELSE \* escalate to AGENT_5: _create_system_failure_case
                   /\ artifacts' = create_system_failure_case(artifacts, row.id)
                   /\ failed' = [failed EXCEPT !.pending = @ \ {row},
                                               !.task = row.id, !.pc = "esc_create"]
                   /\ UNCHANGED <<jobs, tasks, hist>>
       ELSE IF failed.pc = "esc_create"
       THEN \* _prepare_task_input and _create_task for AGENT_5
            /\ Len(tasks) < MaxTasks
            /\ tasks' = create_task(tasks, tasks[failed.task].job_id, EscalationAgent,
                           prepare_task_input(tasks[failed.task].job_id, EscalationAgent))
            /\ invocations' = Append(invocations, 0)
            /\ requeues' = Append(requeues, 0)
            /\ UNCHANGED nonRetryable
            /\ failed' = [failed EXCEPT !.pc = "esc_job"]
            /\ UNCHANGED <<jobs, artifacts>>
       ELSE \* mark original job as failed
            /\ failed.pc = "esc_job"
            /\ jobs' = [jobs EXCEPT ![tasks[failed.task].job_id].status = "FAILED"]
            /\ failed' = FailedAfterRow(failed)
            /\ UNCHANGED <<tasks, artifacts, hist>>
    /\ UNCHANGED <<deployment, workers, runs, newJobs, completed, cancels, returned>>

\* ------------------------------------------------------- specification
Next ==
    \/ create_job
    \/ \E j \in JobIds : cancel_job_check(j)
    \/ cancel_job_update
    \/ \E w \in Workers : poll_tasks_select(w)
    \/ \E w \in Workers : poll_tasks_assign(w)
    \/ \E r \in RunIds : run_task_start(r)
    \/ \E r \in RunIds : run_task_mark_in_progress(r)
    \/ \E r \in RunIds : run_task_invoke(r)
    \/ \E r \in RunIds : save_output_and_complete_task(r)
    \/ \E r \in RunIds : save_output_raises(r)
    \/ \E r \in RunIds : run_task_crash(r)
    \/ \E r \in RunIds : increment_retry_count(r)
    \/ \E r \in RunIds : run_task_set_retrying(r)
    \/ \E r \in RunIds : run_task_refresh(r)
    \/ \E r \in RunIds : run_task_set_failed(r)
    \/ poll_new_jobs
    \/ process_new_job
    \/ poll_completed_tasks
    \/ process_completed_task
    \/ monitor_failed_tasks
    \/ process_failed_task

Spec == Init /\ [][Next]_vars

\* ------------------------------------------------- the orchestrator test
\* test_orchestrator.py drives the orchestrator without a runner: it
\* completes a PENDING task itself with one UPDATE that stores the stage
\* output, and writes no artifact row.  The scenario below runs that
\* harness beside the deployment with an API client.
harness_complete_task(t) ==
    /\ tasks[t].status = "PENDING"
    /\ ~RowLocked(t)
    /\ tasks' = [tasks EXCEPT ![t].status = "COMPLETED", ![t].output = TRUE,
                              ![t].completed_at = TRUE]
    /\ UNCHANGED <<deployment, jobs, artifacts, workers, runs, orch, cancels,
                   returned, hist>>

InitHarness ==
    /\ deployment = [workers |-> 1, budget |-> ClientBudget, cancels |-> MaxCancels,
                     stage |-> "any", workflow |-> "valid"]
    /\ InitTables

NextHarness ==
    \/ Next
    \/ \E t \in TaskIds : harness_complete_task(t)

HarnessSpec == InitHarness /\ [][NextHarness]_vars

\* ------------------------------------------- the always-failing scenario
\* One worker process, every stage function raising a retryable error on
\* every invocation: the steps that can then happen, each coroutine
\* scheduled fairly by its event loop; the API client submits its job and
\* is free to cancel it or not.
InitEsc ==
    /\ deployment = [workers |-> 1, budget |-> LifeBudget, cancels |-> MaxCancels,
                     stage |-> "raises_retryable", workflow |-> "valid"]
    /\ InitTables

RunnerEsc(r) ==
    \/ run_task_start(r)
    \/ run_task_mark_in_progress(r)
    \/ run_task_invoke(r)
    \/ increment_retry_count(r)
    \/ run_task_set_retrying(r)
    \/ run_task_refresh(r)
    \/ run_task_set_failed(r)

WorkerEsc(w) == poll_tasks_select(w) \/ poll_tasks_assign(w)

NextEsc ==
    \/ create_job
    \/ \E j \in JobIds : cancel_job_check(j)
    \/ cancel_job_update
    \/ \E w \in Workers : poll_tasks_select(w)
    \/ \E w \in Workers : poll_tasks_assign(w)
    \/ \E r \in RunIds : run_task_start(r)
    \/ \E r \in RunIds : run_task_mark_in_progress(r)
    \/ \E r \in RunIds : run_task_invoke(r)
    \/ \E r \in RunIds : increment_retry_count(r)
    \/ \E r \in RunIds : run_task_set_retrying(r)
    \/ \E r \in RunIds : run_task_refresh(r)
    \/ \E r \in RunIds : run_task_set_failed(r)
    \/ poll_new_jobs
    \/ process_new_job
    \/ monitor_failed_tasks
    \/ process_failed_task

FairSpec ==
    /\ InitEsc
    /\ [][NextEsc]_vars
    /\ WF_vars(create_job)
    /\ WF_vars(\E w \in Workers : WorkerEsc(w))
    /\ \A r \in RunIds : WF_vars(RunnerEsc(r))
    /\ WF_vars(poll_new_jobs \/ process_new_job)
    /\ WF_vars(monitor_failed_tasks \/ process_failed_task)

\* ------------------------------------------------------------ properties
ActiveRuns == {r \in RunIds : runs[r].pc # "idle"}

\* C1: a PENDING task polled by several workers goes to one of them only:
\* no task is ever in the hands of two runs at once.
C1_SingleRunner ==
    \A r1, r2 \in ActiveRuns : r1 # r2 => runs[r1].task # runs[r2].task

CommitArtifact(t) == HasArtifact(t, get_artifact_name_for_agent(tasks[t].agent_id))

\* C2: the output, the artifact row and the completion timestamp of a task
\* become visible together or not at all, whatever the transaction of
\* save_output_and_complete_task has executed so far and however it ends.
C2_CommitAtomic ==
    \A t \in TaskIds :
        /\ tasks[t].output = tasks[t].completed_at
        /\ tasks[t].output = CommitArtifact(t)

\* two statements of the transaction have run, nothing of it is visible
C2_Witness ==
    \E r \in RunIds :
        /\ runs[r].pc = "tx" /\ runs[r].tx = 2
        /\ ~tasks[runs[r].task].output
        /\ ~CommitArtifact(runs[r].task)

\* C3: a run whose stage function raised a retryable error on every
\* attempt ends only after exactly max_retry_count invocations, and the
\* step that ends it leaves the task FAILED.
C3_RetryBudget ==
    [][\A r \in RunIds :
          (runs[r].pc # "idle" /\ runs[r].allRetry /\ runs'[r].pc = "idle")
          => /\ runs[r].invoked = max_retry_count
             /\ tasks'[runs[r].task].status = "FAILED"
             /\ returned' = "false"]_vars

\* the third retryable failure of a run is about to fail the task
C3_Witness ==
    \E r \in RunIds :
        /\ runs[r].pc = "fail" /\ runs[r].allRetry
        /\ runs[r].err.src = "stage" /\ runs[r].err.retryable
        /\ runs[r].invoked = max_retry_count

\* C4: over the whole life of a task its stage function is invoked at most
\* max_retry_count times.
C4_LifeBudget ==
    \A t \in TaskIds : invocations[t] <= max_retry_count

\* C5: a task that a non-retryable stage error has failed is never invoked
\* again.
C5_NeverAgain ==
    [][\A t \in nonRetryable : invocations'[t] = invocations[t]]_vars

\* C6: an output that fails schema validation is a non-retryable failure.
C6_SchemaNonRetryable ==
    \A r \in RunIds : runs[r].err.src = "schema" => ~runs[r].err.retryable

\* C7: run_task on a task that is already COMPLETED returns success at
\* once: it invokes no stage function and changes no table.
C7_Idempotent ==
    [][\A r \in RunIds :
          (/\ runs[r].pc = "start"
           /\ tasks[runs[r].task].status = "COMPLETED"
           /\ runs'[r] # runs[r])
          => /\ runs'[r] = IdleRun
             /\ returned' = "true"
             /\ UNCHANGED <<db, invocations>>]_vars

\* a run was spawned for a task that another run has completed meanwhile
C7_Witness ==
    \E r \in RunIds :
        /\ runs[r].pc = "start"
        /\ tasks[runs[r].task].status = "COMPLETED"
        /\ tasks[runs[r].task].output

Escalated(t) ==
    /\ tasks[t].status = "FAILED"
    /\ HasArtifact(t, "system_failure_case")
    /\ \E t2 \in TaskIds :
          /\ tasks[t2].agent_id = EscalationAgent
          /\ tasks[t2].job_id = tasks[t].job_id
    /\ jobs[tasks[t].job_id].status = "FAILED"

\* C9: when every invocation of the stage function raises a retryable
\* error and the client does not cancel the job, eventually the task is
\* FAILED, a system_failure_case artifact exists for it, a remediation task
\* exists and the job is FAILED.
C9_Escalation ==
    <>(cancels.count > 0 \/ cancels.pc # "idle" \/ \E t \in TaskIds : Escalated(t))

\* C10: once a job is COMPLETED no step sets its status again.
C10_CompletedOnce ==
    [][\A j \in JobIds :
          jobs[j].status = "COMPLETED" => jobs'[j].status = "COMPLETED"]_vars

FinalAgent == execution_order[Len(execution_order)]

\* C11: a job is COMPLETED only if its task for the final stage of the
\* execution order is COMPLETED.
C11_CompletedByFinalStage ==
    \A j \in JobIds :
        jobs[j].status = "COMPLETED"
        => \E t \in TaskIds : /\ tasks[t].job_id = j
                              /\ tasks[t].agent_id = FinalAgent
                              /\ tasks[t].status = "COMPLETED"

TerminalJobStatuses == {"COMPLETED", "FAILED", "CANCELLED"}

\* C12: a job that is COMPLETED, FAILED or CANCELLED never changes status
\* again, and a cancel request is accepted only for a PENDING or
\* IN_PROGRESS job.
C12_TerminalJobs ==
    [][\A j \in JobIds :
          /\ jobs[j].status \in TerminalJobStatuses
             => jobs'[j].status = jobs[j].status
          /\ (cancels.pc = "idle" /\ cancels'.pc = "update" /\ cancels'.job = j)
             => jobs[j].status \in {"PENDING", "IN_PROGRESS"}]_vars

TaskEdges ==
    {<<"PENDING", "ASSIGNED">>, <<"ASSIGNED", "IN_PROGRESS">>,
     <<"IN_PROGRESS", "COMPLETED">>, <<"IN_PROGRESS", "RETRYING">>,
     <<"IN_PROGRESS", "FAILED">>, <<"RETRYING", "IN_PROGRESS">>}

\* C13: a task's status changes only along PENDING -> ASSIGNED ->
\* IN_PROGRESS -> {COMPLETED, RETRYING, FAILED} and RETRYING -> IN_PROGRESS,
\* and no step changes any field of a COMPLETED or FAILED task.
C13_TaskTransitions ==
    [][\A t \in TaskIds :
          /\ tasks'[t].status # tasks[t].status
             => <<tasks[t].status, tasks'[t].status>> \in TaskEdges
          /\ tasks[t].status \in {"COMPLETED", "FAILED"}
             => tasks'[t] = tasks[t]]_vars

\* C14: every artifact row belongs to a task whose status is COMPLETED.
C14_ArtifactOfCompleted ==
    \A i \in 1..Len(artifacts) : tasks[artifacts[i].task_id].status = "COMPLETED"

\* C15: inserting an artifact for a (task_id, name) pair that already has a
\* row raises no error on any path, and there is never more than one row
\* per pair.
C15_DuplicateNoOp ==
    /\ \A r \in RunIds : runs[r].err.src # "unique"
    /\ \A i, k \in 1..Len(artifacts) : artifacts[i] = artifacts[k] => i = k

JobArtifacts(j) ==
    {i \in 1..Len(artifacts) : tasks[artifacts[i].task_id].job_id = j}

C17_InvalidWorkflowAborts ==
    ~validate_workflow
    => /\ tasks = <<>>
       /\ \A j \in JobIds : jobs[j].status = "PENDING"

\* C18 (as stated): no step of the completed-task cycle changes the
\* artifacts table.
C18_CycleReadsOnly ==
    [][completed' # completed => artifacts' = artifacts]_vars

\* C18 (amended): a step of the completed-task cycle either leaves the
\* artifacts table unchanged or appends exactly the row of a task that has
\* output and had no row under its stage's declared output name.
C18_CycleInsertsIfAbsent ==
    [][completed' # completed
       => \/ artifacts' = artifacts
          \/ \E t \in TaskIds :
                LET name == get_agent_output_artifact(tasks[t].agent_id)
                IN /\ artifacts' = Append(artifacts, [task_id |-> t, name |-> name])
                   /\ tasks[t].output
                   /\ ~HasArtifact(t, name)]_vars

\* the cycle has written the row of a task that no runner ever invoked,
\* and has since marked the task as orchestrated
C18_Witness ==
    \E t \in TaskIds :
        /\ invocations[t] = 0
        /\ tasks[t].output
        /\ HasArtifact(t, get_agent_output_artifact(tasks[t].agent_id))
        /\ Orchestrated(tasks[t].error_log)

\* C19: once a job is CANCELLED no step creates a new task for it.
C19_NoDispatchAfterCancel ==
    [][\A j \in JobIds :
          jobs[j].status = "CANCELLED"
          => \A t \in (1..Len(tasks')) \ TaskIds : tasks'[t].job_id # j]_vars

FirstTasks(j) ==
    {t \in TaskIds : tasks[t].job_id = j /\ tasks[t].agent_id = get_first_agent}

FirstTaskInput == [artifacts |-> <<>>, params |-> "initial_request"]

\* C20: a job never has two first-stage tasks; a job that is IN_PROGRESS
\* once the new-job cycle has finished with it has exactly one; that task
\* carries an empty artifact-reference list and the job's initial request,
\* and is created PENDING.
C20_FirstTask ==
    [][/\ \A j \in 1..Len(jobs') :
             /\ Cardinality(FirstTasks(j)') <= 1
             /\ (jobs'[j].status = "IN_PROGRESS"
                 /\ ~(newJobs'.pc = "create" /\ newJobs'.job = j))
                => Cardinality(FirstTasks(j)') = 1
             /\ \A t \in FirstTasks(j)' : tasks'[t].input = FirstTaskInput
       /\ \A t \in (1..Len(tasks')) \ TaskIds : tasks'[t].status = "PENDING"]_vars

\* the new-job cycle has finished with a job: it is IN_PROGRESS and has
\* its first task
C20_Witness ==
    \E j \in JobIds :
        /\ jobs[j].status = "IN_PROGRESS"
        /\ newJobs.pc = "poll"
        /\ Cardinality(FirstTasks(j)) = 1

\* the indexes of the artifacts named `name` that tasks of job `job` own
ArtifactsNamed(job, name) ==
    {i \in 1..Len(artifacts) :
        artifacts[i].name = name /\ tasks[artifacts[i].task_id].job_id = job}

\* C21: the Task the completed-task cycle creates for the next stage
\* carries, for every required input artifact name of that stage, exactly
\* one reference, and the reference names the Task of the same Job that
\* owns the most recently created artifact of that name; no required name
\* is missing.
C21_NextTaskInput ==
    [][(completed.pc = "create" /\ Len(tasks') = Len(tasks) + 1) =>
          LET new == tasks'[Len(tasks')]
              req == get_agent_input_artifacts(new.agent_id)
              refs == new.input.artifacts
          IN /\ Len(refs) = Len(req)
             /\ \A i \in 1..Len(req) :
                   /\ refs[i].name = req[i]
                   /\ \E k \in ArtifactsNamed(new.job_id, req[i]) :
                         /\ \A m \in ArtifactsNamed(new.job_id, req[i]) : m <= k
                         /\ refs[i].source_task_id = artifacts[k].task_id]_vars

\* ------------------------------------------ the always-succeeding scenario
\* Several worker processes, every stage function returning a schema-valid
\* output on every invocation, no statement failing for a reason of the
\* database's own and no cancel request.  The invocation budget is one
\* more than LifeBudget, the seven invocations a task can get here: the
\* one that commits and three for each of the two later runs.
InitOk ==
    /\ deployment = [workers |-> RaceWorkers, budget |-> LifeBudget + 1, cancels |-> 0,
                     stage |-> "succeeds", workflow |-> "valid"]
    /\ InitTables

RunnerOk(r) ==
    \/ run_task_start(r)
    \/ run_task_mark_in_progress(r)
    \/ run_task_invoke(r)
    \/ save_output_and_complete_task(r)
    \/ increment_retry_count(r)
    \/ run_task_set_retrying(r)
    \/ run_task_refresh(r)
    \/ run_task_set_failed(r)

NextOk ==
    \/ create_job
    \/ \E w \in Workers : poll_tasks_select(w)
    \/ \E w \in Workers : poll_tasks_assign(w)
    \/ \E r \in RunIds : run_task_start(r)
    \/ \E r \in RunIds : run_task_mark_in_progress(r)
    \/ \E r \in RunIds : run_task_invoke(r)
    \/ \E r \in RunIds : save_output_and_complete_task(r)
    \/ \E r \in RunIds : increment_retry_count(r)
    \/ \E r \in RunIds : run_task_set_retrying(r)
    \/ \E r \in RunIds : run_task_refresh(r)
    \/ \E r \in RunIds : run_task_set_failed(r)
    \/ poll_new_jobs
    \/ process_new_job
    \/ poll_completed_tasks
    \/ process_completed_task
    \/ monitor_failed_tasks
    \/ process_failed_task

\* every coroutine is scheduled fairly by the event loop of its process
FairOkSpec ==
    /\ InitOk
    /\ [][NextOk]_vars
    /\ WF_vars(create_job)
    /\ \A w \in 1..RaceWorkers : WF_vars(WorkerEsc(w))
    /\ \A r \in RunIds : WF_vars(RunnerOk(r))
    /\ WF_vars(poll_new_jobs \/ process_new_job)
    /\ WF_vars(poll_completed_tasks \/ process_completed_task)
    /\ WF_vars(monitor_failed_tasks \/ process_failed_task)

\* C22: when every stage invocation succeeds and every poller and worker
\* is scheduled fairly, every submitted Job eventually reaches COMPLETED
\* (a stage function that never returns, which the invocation budget
\* stands for, is not a successful invocation and is set aside).
C22_JobsComplete ==
    \A j \in 1..MaxJobs :
        (j \in JobIds) ~>
            (\/ j \in JobIds /\ jobs[j].status = "COMPLETED"
             \/ SumSeq(invocations) >= deployment.budget)

\* ------------------------------------------- the classification scenario
\* One worker process and a stage function that raises the same exception
\* on every invocation, the exception being any of Errors.
InitClassify ==
    /\ deployment \in {[workers |-> 1, budget |-> LifeBudget, cancels |-> MaxCancels,
                        stage |-> "raises", workflow |-> "valid", raises |-> e] :
                          e \in Errors}
    /\ InitTables

ClassifySpec == InitClassify /\ [][NextEsc]_vars

\* C23: an exception of a typed class is classified by its class alone,
\* RetryableError as retryable and NonRetryableError as non-retryable,
\* whatever its text holds; an untyped exception is classified by the
\* keywords of its text, and is retryable when no keyword matches.
C23_Classification ==
    \A r \in RunIds :
        runs[r].err.src = "stage" =>
            LET e == deployment.raises
                is_retryable == runs[r].err.retryable
            IN /\ e.cls = "RetryableError" => is_retryable
               /\ e.cls = "NonRetryableError" => ~is_retryable
               /\ (e.cls = "Untyped" /\ e.retryKw /\ ~e.nonRetryKw) => is_retryable
               /\ (e.cls = "Untyped" /\ e.nonRetryKw /\ ~e.retryKw) => ~is_retryable
               /\ (e.cls = "Untyped" /\ ~e.retryKw /\ ~e.nonRetryKw) => is_retryable

\* a NonRetryableError whose text holds a retryable keyword has been
\* classified non-retryable
C23_Witness ==
    \E r \in RunIds :
        /\ runs[r].err.src = "stage"
        /\ deployment.raises =
              [cls |-> "NonRetryableError", retryKw |-> TRUE, nonRetryKw |-> FALSE]
        /\ ~runs[r].err.retryable

\* the number of error records an error_log holds
ErrorRecords(log) == Cardinality({i \in 1..Len(log) : log[i] = "error"})

\* C24: a Task's error_log retains the full attempt history: a runner that
\* has just recorded the failure of its attempt number k (k from 0) finds
\* in the error_log a record of each of its k + 1 failed attempts.
C24_ErrorHistory ==
    \A r \in RunIds :
        runs[r].pc = "sleep" =>
            ErrorRecords(tasks[runs[r].task].error_log) >= runs[r].attempt + 1

\* the Tasks of the same Job for the stage that follows the stage of t
FollowOns(t) ==
    IF get_next_agents(tasks[t].agent_id) = <<>> THEN {}
    ELSE {u \in TaskIds : /\ tasks[u].job_id = tasks[t].job_id
                          /\ tasks[u].agent_id = Head(get_next_agents(tasks[t].agent_id))}

\* C25: a COMPLETED Task is processed by the completed-task cycle at most
\* once: no pass of the cycle selects a Task whose follow-on Task has
\* already been created, and no Task ever has more than one follow-on
\* Task, whatever the runner and the failure cycle write to the Task after
\* it was marked.
C25_ProcessedOnce ==
    [][/\ (completed.pc = "poll" /\ completed'.pc = "next") =>
              \A row \in completed'.pending : FollowOns(row.id) = {}
       /\ \A t \in TaskIds : Cardinality(FollowOns(t)') <= 1]_vars

\* the cycle has created the follow-on Task and marked the Task, and a
\* runner has since overwritten the error_log that held the marker
C25_Witness ==
    \E t \in TaskIds :
        /\ FollowOns(t) # {}
        /\ completed.pc = "poll"
        /\ ~Orchestrated(tasks[t].error_log)

\* C26: the runner's sleep after its attempt number k (k from 0) failed
\* with a retryable error and attempts remain lasts retry_delay_seconds *
\* 2^k: the first sleep of a run is the base delay and each later one is
\* twice the one before; a run whose error is non-retryable or whose last
\* attempt failed returns without sleeping.
C26_Backoff ==
    [][\A r \in RunIds :
          /\ (runs[r].pc = "sleep" /\ runs'[r].pc \in {"mark", "invoke"}) =>
                /\ runs[r].attempt < max_retry_count - 1
                /\ runs'[r].slept = retry_delay_seconds * 2 ^ runs[r].attempt
                /\ runs'[r].slept = IF runs[r].attempt = 0 THEN retry_delay_seconds
                                    ELSE 2 * runs[r].slept
          /\ (/\ runs[r].pc \in {"invoke", "tx"}
              /\ runs'[r].err.src # "none"
              /\ \/ ~runs'[r].err.retryable
                 \/ runs[r].attempt = max_retry_count - 1) =>
                runs'[r].pc = "fail"
          /\ runs[r].pc = "fail" => runs'[r].pc \in {"fail", "idle"}]_vars

\* a run has slept twice, the second time for twice the base delay
C26_Witness ==
    \E r \in RunIds :
        /\ runs[r].attempt = 2
        /\ runs[r].slept = 2 * retry_delay_seconds

\* ------------------------------------------------- the fair race scenario
\* Several worker processes and stage functions free to raise or return
\* on each invocation; no statement failing for a reason of the database's
\* own, no crash and no cancel request; every coroutine scheduled fairly.
\* The budget is one invocation more than RaceBudget: one for the run that
\* fails the task and three for the run that retries it.
InitRace ==
    /\ deployment = [workers |-> RaceWorkers, budget |-> RaceBudget + 1, cancels |-> 0,
                     stage |-> "any", workflow |-> "valid"]
    /\ InitTables

FairRaceSpec ==
    /\ InitRace
    /\ [][NextOk]_vars
    /\ WF_vars(create_job)
    /\ \A w \in 1..RaceWorkers : WF_vars(WorkerEsc(w))
    /\ \A r \in RunIds : WF_vars(RunnerOk(r))
    /\ WF_vars(poll_new_jobs \/ process_new_job)
    /\ WF_vars(poll_completed_tasks \/ process_completed_task)
    /\ WF_vars(monitor_failed_tasks \/ process_failed_task)

\* C27: RETRYING is never terminal: under fair scheduling every RETRYING
\* Task eventually is IN_PROGRESS again, and no step of the completed-task
\* cycle or of the failure monitor takes up a Task whose status is
\* RETRYING.
C27_RetryingResumes ==
    /\ \A t \in 1..MaxTasks :
          (t \in TaskIds /\ tasks[t].status = "RETRYING") ~>
              (t \in TaskIds /\ tasks[t].status = "IN_PROGRESS")
    /\ [][\A t \in TaskIds :
             tasks[t].status = "RETRYING" =>
                 /\ requeues'[t] = requeues[t]
                 /\ ~(completed.pc = "next" /\ completed'.task = t)]_vars

\* the stage that precedes agent in the execution order, if any
Predecessors(agent) ==
    {execution_order[i] : i \in {k \in 1..(Len(execution_order) - 1) :
                                    execution_order[k + 1] = agent}}

C29_TaskSettles ==
    /\ [][\A t \in TaskIds :
             /\ tasks'[t].retry_count >= tasks[t].retry_count
             /\ requeues'[t] # requeues[t] =>
                   /\ tasks[t].retry_count < max_retry_attempts
                   /\ tasks'[t].retry_count = tasks[t].retry_count + 1]_vars
    /\ \A t \in 1..MaxTasks :
          <>[][(t \in TaskIds) => (tasks'[t].status = tasks[t].status)]_vars

\* C30: when a run ends after each of its max_retry_count attempts raised
\* a retryable error, the run has added exactly max_retry_count - 1 to the
\* Task's retry_count, and the step that ends it, after the last failing
\* attempt, adds nothing.
C30_RunIncrements ==
    [][\A r \in RunIds :
          (/\ runs[r].pc = "fail" /\ runs[r].allRetry
           /\ runs[r].invoked = max_retry_count
           /\ runs'[r].pc = "idle")
          => /\ runs[r].incremented = max_retry_count - 1
             /\ tasks'[runs[r].task].retry_count
                   = tasks[runs[r].task].retry_count]_vars

\* a run that is alone on its Task is about to end after max_retry_count
\* retryable failures, and the Task's retry_count is what the run added
C30_Witness ==
    \E r \in RunIds :
        /\ runs[r].pc = "fail" /\ runs[r].allRetry
        /\ runs[r].invoked = max_retry_count
        /\ requeues[runs[r].task] = 0
        /\ tasks[runs[r].task].retry_count = runs[r].incremented
        /\ runs[r].incremented = max_retry_count - 1
====
